---- MODULE Spec2Model ----
(***************************************************************************)
(* The history archive of src-tauri/src/main.rs: save_history_task,        *)
(* get_history_data, get_history_task, delete_history_task,                *)
(* clear_history_data and get_history_stats over coredata/history.json     *)
(* (the index) and coredata/history/<year>/<month>/<file>.json (the        *)
(* archive files).                                                         *)
(*                                                                         *)
(* Strings the code takes apart (task ids, names, file names) are          *)
(* sequences of one-character strings; an optional JSON field is <<>>      *)
(* (absent) or <<v>> (present).  The wall-clock "created-time" of an       *)
(* archive file is left out: no handler reads it.                          *)
(***************************************************************************)
EXTENDS Integers, Sequences, FiniteSets, TLC

VARIABLES
    indexFile,   \* coredata/history.json: [state, entries]
    files,       \* archive files: relative path -> content
    last,        \* the latest call and what it returned
    log,         \* successful save/delete/clear calls since the empty store
    insertedAt,  \* task id -> place in log of the save that inserted it
    updatedAt,   \* task id -> place in log of its latest successful save
    fresh,       \* how many numbered task ids the caller has used
    calls,       \* calls made after Init
    running      \* the calls that run side by side: where each one stands

vars == <<indexFile, files, last, log, insertedAt, updatedAt, fresh, calls,
          running>>

----------------------------------------------------------------------------
(* Bounds of the model *)

\* calls explored after the filling, when no file operation fails
MaxCalls == 2
\* calls explored from the empty store, when file operations may fail
MaxCallsIO == 3
\* how far below the index limit the pre-filled initial stores start
FillSlack == 1
\* the numbered task ids 1..ReArchived may be saved again and deleted
ReArchived == 1

(* Program constants *)

\* history_index.truncate(100)
HistoryLimit == 100
\* .chars().take(50)
NameLimit == 50

----------------------------------------------------------------------------
(* Strings *)

Some(v) == <<v>>
None == <<>>

Min(a, b) == IF a < b THEN a ELSE b

Take(s, n) == SubSeq(s, 1, Min(n, Len(s)))

DigitChar(d) ==
    CASE d = 0 -> "0" [] d = 1 -> "1" [] d = 2 -> "2" [] d = 3 -> "3"
      [] d = 4 -> "4" [] d = 5 -> "5" [] d = 6 -> "6" [] d = 7 -> "7"
      [] d = 8 -> "8" [] d = 9 -> "9"

RECURSIVE Digits(_)
\* n.to_string() of a natural number
Digits(n) == IF n < 10 THEN <<DigitChar(n)>>
             ELSE Digits(n \div 10) \o <<DigitChar(n % 10)>>

\* format!("{:02}", month)
Pad2(n) == IF n < 10 THEN <<"0">> \o Digits(n) ELSE Digits(n)

\* the characters replaced by '_' in a file name
Forbidden == {"<", ">", ":", "\"", "/", "\\", "|", "?", "*"}

\* task_name.replace(&[...][..], "_").replace(' ', "_").chars().take(50)
CleanName(name) ==
    Take([i \in 1..Len(name) |->
            IF name[i] \in Forbidden \/ name[i] = " " THEN "_" ELSE name[i]],
         NameLimit)

\* format!("{}_{}.json", clean_name, task_id)
FileName(name, id) == CleanName(name) \o <<"_">> \o id \o <<".json">>

\* the month written without its leading zero
RelativePathUnpadded(year, month, fileName) == <<Digits(year), Digits(month), fileName>>

\* a file under coredata/history: <<year directory, month directory, file>>
\* format!("{}/{}/{}", year, month_str, file_name), which the readers join
\* to coredata/history
RelativePath(year, month, fileName) == <<Digits(year), Pad2(month), fileName>>

\* current_dir/coredata/history/year.to_string()/format!("{:02}", month)/file_name
FilePath(year, month, fileName) == <<Digits(year), Pad2(month), fileName>>

\* "未命名任务"
DefaultName == <<"wei", "ming", "ming", "ren", "wu">>
\* "未知小组"
DefaultGroup == <<"wei", "zhi", "xiao", "zu">>

\* a parse that falls back to the first month of 1970 where it should fail
ParseLenient(ts) ==
    CASE ts = "2024-01-15T10:00:00+08:00" -> <<[year |-> 2024, month |-> 1]>>
      [] ts = "2024-01-20T08:30:00Z"      -> <<[year |-> 2024, month |-> 1]>>
      [] ts = "2025-11-02T09:00:00Z"      -> <<[year |-> 2025, month |-> 11]>>
      [] OTHER -> <<[year |-> 1970, month |-> 1]>>

\* chrono::DateTime::parse_from_rfc3339(timestamp), then year() and month()
ParseRfc3339(ts) ==
    CASE ts = "2024-01-15T10:00:00+08:00" -> Some([year |-> 2024, month |-> 1])
      [] ts = "2024-01-20T08:30:00Z"      -> Some([year |-> 2024, month |-> 1])
      [] ts = "2025-11-02T09:00:00Z"      -> Some([year |-> 2025, month |-> 11])
      [] OTHER -> None

----------------------------------------------------------------------------
(* The two kinds of file *)

MissingIndex == [state |-> "missing", entries |-> <<>>]
CorruptIndex == [state |-> "corrupt", entries |-> <<>>]
OkIndex(entries) == [state |-> "ok", entries |-> entries]

\* if history_index_path.exists() { from_str(..).unwrap_or_else(|_| vec![]) }
\* else { vec![] }
LoadIndex(ix) == IF ix.state = "ok" THEN ix.entries ELSE <<>>

\* serde_json::json!({"task-data": .., "year": .., "month": ..})
ArchiveContent(task_data, year, month) ==
    [kind |-> "archive", taskData |-> Some(task_data), year |-> year, month |-> month]
\* bytes that are no JSON document
Garbage == [kind |-> "garbage", taskData |-> None, year |-> 0, month |-> 0]
\* a JSON document without the "task-data" key
NoTaskData == [kind |-> "json", taskData |-> None, year |-> 0, month |-> 0]

\* from_str::<Value>(&task_content) and then .get("task-data")
ParseTaskData(content) ==
    IF content.kind = "garbage" THEN None ELSE content.taskData

WriteFile(fs, path, content) ==
    [p \in DOMAIN fs \cup {path} |-> IF p = path THEN content ELSE fs[p]]

\* the month directories of the paths removed with all they hold
RemoveWholeMonths(fs, paths) ==
    [p \in {x \in DOMAIN fs :
                \A y \in paths : x[1] # y[1] \/ x[2] # y[2]} |-> fs[p]]

RemoveFiles(fs, paths) == [p \in DOMAIN fs \ paths |-> fs[p]]

\* history_index.iter().position(|item| item.id == task_id)
Position(entries, id) ==
    IF \E i \in 1..Len(entries) : entries[i].id = id
    THEN CHOOSE i \in 1..Len(entries) :
            /\ entries[i].id = id
            /\ \A j \in 1..(i - 1) : entries[j].id # id
    ELSE 0

IndexIds(entries) == {entries[i].id : i \in 1..Len(entries)}

----------------------------------------------------------------------------
(* save_history_task *)

IndexEntry(task_data, id, name, timestamp, year, month) ==
    [id |-> id,
     name |-> name,
     timestamp |-> timestamp,
     fileName |-> FileName(name, id),
     relativePath |-> RelativePath(year, month, FileName(name, id)),
     totalCount |-> IF task_data.total_count = None THEN 0
                    ELSE task_data.total_count[1],
     groupName |-> IF task_data.group_name = None THEN DefaultGroup
                   ELSE task_data.group_name[1],
     year |-> year,
     month |-> month]

\* the truncate left out
TruncateLeftOut(entries) == entries

\* the truncate one short
TruncateOneShort(entries) == Take(entries, HistoryLimit - 1)

\* history_index.truncate(100)
Truncate(entries) == Take(entries, HistoryLimit)

\* a new entry pushed at the end instead of inserted at the front
UpsertPushesLast(entries, entry) ==
    LET pos == Position(entries, entry.id) IN
    Truncate(IF pos > 0 THEN [entries EXCEPT ![pos] = entry]
             ELSE entries \o <<entry>>)

\* an updated entry moved to the front instead of replaced in place
UpsertMovesToFront(entries, entry) ==
    Truncate(<<entry>> \o SelectSeq(entries, LAMBDA item : item.id # entry.id))

\* the position check left out: every save inserts
UpsertAlwaysInserts(entries, entry) == Truncate(<<entry>> \o entries)

\* replace in place, or insert at the front; then truncate
Upsert(entries, entry) ==
    LET pos == Position(entries, entry.id) IN
    Truncate(IF pos > 0 THEN [entries EXCEPT ![pos] = entry]
             ELSE <<entry>> \o entries)

Outcome(ix, fs, ok, err, val) ==
    [indexFile |-> ix, files |-> fs, ok |-> ok, err |-> err, val |-> val]

\* the writes of the index file: fs::write either succeeds, fails before it
\* touches the file, or fails after it truncated it
WriteIndex(ix, fs, entries, fail, err) ==
    CASE fail = "write_index"      -> Outcome(ix, fs, FALSE, err, <<>>)
      [] fail = "write_index_torn" -> Outcome(CorruptIndex, fs, FALSE, err, <<>>)
      [] OTHER                     -> Outcome(OkIndex(entries), fs, TRUE, "", <<>>)

\* the index written before the directory is made and the archive file is
\* written
SaveIndexingFirst(ix, fs, task_data, fail) ==
    IF task_data.id = None \/ task_data.timestamp = None
    THEN Outcome(ix, fs, FALSE, "missing field", <<>>)
    ELSE IF ParseRfc3339(task_data.timestamp[1]) = None
    THEN Outcome(ix, fs, FALSE, "timestamp parse", <<>>)
    ELSE
    LET id == task_data.id[1]
        name == IF task_data.name = None THEN DefaultName ELSE task_data.name[1]
        timestamp == task_data.timestamp[1]
        date == ParseRfc3339(timestamp)[1]
        entry == IndexEntry(task_data, id, name, timestamp, date.year, date.month)
        path == FilePath(date.year, date.month, entry.fileName)
        written == WriteFile(fs, path, ArchiveContent(task_data, date.year, date.month))
        indexed == OkIndex(Upsert(LoadIndex(ix), entry))
    IN
    CASE fail = "read_index" /\ ix.state # "missing" ->
            Outcome(ix, fs, FALSE, "read index", <<>>)
      [] fail = "mkdir"           -> Outcome(indexed, fs, FALSE, "create dir", <<>>)
      [] fail = "write_file"      -> Outcome(indexed, fs, FALSE, "write file", <<>>)
      [] fail = "write_file_torn" ->
            Outcome(indexed, WriteFile(fs, path, Garbage), FALSE, "write file", <<>>)
      [] OTHER ->
            WriteIndex(ix, written, Upsert(LoadIndex(ix), entry), fail, "write index")

SaveHistoryTask(ix, fs, task_data, fail) ==
    IF task_data.id = None THEN Outcome(ix, fs, FALSE, "missing id", <<>>)
    ELSE IF task_data.timestamp = None
    THEN Outcome(ix, fs, FALSE, "missing timestamp", <<>>)
    ELSE IF ParseRfc3339(task_data.timestamp[1]) = None
    THEN Outcome(ix, fs, FALSE, "timestamp parse", <<>>)
    ELSE
    LET id == task_data.id[1]
        name == IF task_data.name = None THEN DefaultName ELSE task_data.name[1]
        timestamp == task_data.timestamp[1]
        date == ParseRfc3339(timestamp)[1]
        entry == IndexEntry(task_data, id, name, timestamp, date.year, date.month)
        path == FilePath(date.year, date.month, entry.fileName)
        written == WriteFile(fs, path, ArchiveContent(task_data, date.year, date.month))
    IN
    CASE fail = "mkdir"           -> Outcome(ix, fs, FALSE, "create dir", <<>>)
      [] fail = "write_file"      -> Outcome(ix, fs, FALSE, "write file", <<>>)
      [] fail = "write_file_torn" ->
            Outcome(ix, WriteFile(fs, path, Garbage), FALSE, "write file", <<>>)
      [] fail = "read_index" /\ ix.state # "missing" ->
            Outcome(ix, written, FALSE, "read index", <<>>)
      [] OTHER ->
            WriteIndex(ix, written, Upsert(LoadIndex(ix), entry), fail, "write index")

----------------------------------------------------------------------------
(* get_history_data *)

\* index_item.get("relativePath").and_then(|v| v.as_str())
HasRelativePath(item) == "relativePath" \in DOMAIN item

\* the summary built from the index entry alone
BackupData(item) ==
    [id |-> item.id,
     name |-> item.name,
     timestamp |-> item.timestamp,
     total_count |-> item.totalCount,
     group_name |-> item.groupName,
     results |-> <<>>,
     file_path |-> item.fileName,
     edit_protected |-> FALSE,
     edit_password |-> ""]

\* task_file_path.exists(), read_to_string, from_str, get("task-data");
\* badFile is the archive file whose read fails, if any
LoadTaskData(fs, path, badFile) ==
    IF path \in DOMAIN fs /\ path # badFile THEN ParseTaskData(fs[path]) ELSE None

\* what the loop pushes for one index item that has a relativePath
Summary(item, fs, badFile) ==
    LET loaded == LoadTaskData(fs, item.relativePath, badFile) IN
    IF loaded # None THEN loaded[1] ELSE BackupData(item)

\* the loop without its fallback: an item whose file does not load is skipped
HistoryDataWithoutFallback(entries, fs, badFile) ==
    LET items == SelectSeq(entries,
                    LAMBDA item : /\ HasRelativePath(item)
                                  /\ LoadTaskData(fs, item.relativePath, badFile) # None)
    IN [i \in 1..Len(items) |-> Summary(items[i], fs, badFile)]

\* the loop over the index: one push per item that has a relativePath
HistoryData(entries, fs, badFile) ==
    LET items == SelectSeq(entries, HasRelativePath) IN
    [i \in 1..Len(items) |-> Summary(items[i], fs, badFile)]

GetHistoryData(ix, fs, fail, badFile) ==
    IF ix.state = "missing" THEN Outcome(ix, fs, TRUE, "", <<>>)
    ELSE IF fail = "read_index" THEN Outcome(ix, fs, FALSE, "read index", <<>>)
    ELSE Outcome(ix, fs, TRUE, "", HistoryData(LoadIndex(ix), fs, badFile))

----------------------------------------------------------------------------
(* get_history_task *)

\* a failed read of the archive file taken for an absent task
GetSwallowingReadFailure(ix, fs, task_id, fail, badFile) ==
    IF ix.state = "missing" THEN Outcome(ix, fs, TRUE, "", None)
    ELSE IF fail = "read_index" THEN Outcome(ix, fs, FALSE, "read index", None)
    ELSE
    LET entries == LoadIndex(ix)
        pos == Position(entries, task_id)
    IN
    IF pos = 0 \/ ~HasRelativePath(entries[pos]) THEN Outcome(ix, fs, TRUE, "", None)
    ELSE LET path == entries[pos].relativePath IN
         IF path \notin DOMAIN fs \/ path = badFile
         THEN Outcome(ix, fs, TRUE, "", None)
         ELSE Outcome(ix, fs, TRUE, "", ParseTaskData(fs[path]))

GetHistoryTask(ix, fs, task_id, fail, badFile) ==
    IF ix.state = "missing" THEN Outcome(ix, fs, TRUE, "", None)
    ELSE IF fail = "read_index" THEN Outcome(ix, fs, FALSE, "read index", None)
    ELSE
    LET entries == LoadIndex(ix)
        pos == Position(entries, task_id)
    IN
    IF pos = 0 \/ ~HasRelativePath(entries[pos]) THEN Outcome(ix, fs, TRUE, "", None)
    ELSE LET path == entries[pos].relativePath IN
         IF path \notin DOMAIN fs THEN Outcome(ix, fs, TRUE, "", None)
         ELSE IF path = badFile THEN Outcome(ix, fs, FALSE, "read file", None)
         ELSE Outcome(ix, fs, TRUE, "", ParseTaskData(fs[path]))

----------------------------------------------------------------------------
(* delete_history_task *)

\* the retain with its test inverted
RetainInverted(entries, task_id) ==
    SelectSeq(entries, LAMBDA item : item.id = task_id)

\* history_index.retain(|item| item.id != task_id)
Retain(entries, task_id) ==
    SelectSeq(entries, LAMBDA item : item.id # task_id)

\* the failed remove_file not propagated: the index entry goes all the same
DeleteIgnoringRemoveFailure(ix, fs, task_id, fail) ==
    IF ix.state = "missing" THEN Outcome(ix, fs, TRUE, "", <<>>)
    ELSE IF fail = "read_index" THEN Outcome(ix, fs, FALSE, "read index", <<>>)
    ELSE
    LET entries == LoadIndex(ix)
        pos == Position(entries, task_id)
        found == pos > 0 /\ HasRelativePath(entries[pos])
                 /\ entries[pos].relativePath \in DOMAIN fs
        removed == IF found /\ fail # "remove_file"
                   THEN RemoveFiles(fs, {entries[pos].relativePath}) ELSE fs
        out == WriteIndex(ix, removed, Retain(entries, task_id), fail, "write index")
    IN IF found /\ fail = "remove_file"
       THEN [out EXCEPT !.ok = FALSE, !.err = "remove file"]
       ELSE out

\* an id the index does not hold reported as an error
DeleteFailingOnUnknown(ix, fs, task_id, fail) ==
    IF ix.state = "missing" THEN Outcome(ix, fs, TRUE, "", <<>>)
    ELSE IF fail = "read_index" THEN Outcome(ix, fs, FALSE, "read index", <<>>)
    ELSE
    LET entries == LoadIndex(ix)
        pos == Position(entries, task_id)
        found == pos > 0 /\ HasRelativePath(entries[pos])
                 /\ entries[pos].relativePath \in DOMAIN fs
    IN
    IF pos = 0 THEN Outcome(ix, fs, FALSE, "not found", <<>>)
    ELSE IF found /\ fail = "remove_file"
    THEN Outcome(ix, fs, FALSE, "remove file", <<>>)
    ELSE LET removed == IF found THEN RemoveFiles(fs, {entries[pos].relativePath})
                        ELSE fs
         IN WriteIndex(ix, removed, Retain(entries, task_id), fail, "write index")

DeleteHistoryTask(ix, fs, task_id, fail) ==
    IF ix.state = "missing" THEN Outcome(ix, fs, TRUE, "", <<>>)
    ELSE IF fail = "read_index" THEN Outcome(ix, fs, FALSE, "read index", <<>>)
    ELSE
    LET entries == LoadIndex(ix)
        pos == Position(entries, task_id)
        found == pos > 0 /\ HasRelativePath(entries[pos])
                 /\ entries[pos].relativePath \in DOMAIN fs
    IN
    IF found /\ fail = "remove_file"
    THEN Outcome(ix, fs, FALSE, "remove file", <<>>)
    ELSE LET removed == IF found THEN RemoveFiles(fs, {entries[pos].relativePath})
                        ELSE fs
         IN WriteIndex(ix, removed, Retain(entries, task_id), fail, "write index")

----------------------------------------------------------------------------
(* clear_history_data *)

\* a failure of the walk propagated: the index is not reset
ClearStoppingAtWalkFailure(ix, fs, survivors, fail) ==
    IF survivors \cap DOMAIN fs # {}
    THEN Outcome(ix, RemoveFiles(fs, DOMAIN fs \ survivors), FALSE, "walk", <<>>)
    ELSE WriteIndex(ix, RemoveFiles(fs, DOMAIN fs \ survivors), <<>>, fail,
                    "write index")

\* the files the index entries name removed, instead of those of the
\* directories
ClearByIndex(ix, fs, survivors, fail) ==
    WriteIndex(ix,
               RemoveFiles(fs, {LoadIndex(ix)[i].relativePath :
                                   i \in 1..Len(LoadIndex(ix))} \ survivors),
               <<>>, fail, "write index")

\* the walk over history/<year>/<month>/*.json; survivors are the files a
\* failed read_dir, file_type or remove_file leaves behind
ClearHistoryData(ix, fs, survivors, fail) ==
    WriteIndex(ix, RemoveFiles(fs, DOMAIN fs \ survivors), <<>>, fail, "write index")

----------------------------------------------------------------------------
(* get_history_stats *)

\* i32::MAX
I32Max == 2147483647

\* i32 addition, wrapping as a release build does
AddI32(a, b) ==
    IF b > 0 /\ a > I32Max - b THEN (a - I32Max - 1) + (b - I32Max - 1)
    ELSE IF b < 0 /\ a < (-I32Max - 1) - b THEN (a + I32Max + 1) + (b + I32Max + 1)
    ELSE a + b

RECURSIVE SumCounts(_, _, _)
\* the i32 sum of totalCount over entries[lo..hi]; wrapping addition is
\* associative, so the halves may be summed apart
SumCounts(entries, lo, hi) ==
    IF lo > hi THEN 0
    ELSE IF lo = hi THEN entries[lo].totalCount
    ELSE LET mid == (lo + hi) \div 2 IN
         AddI32(SumCounts(entries, lo, mid), SumCounts(entries, mid + 1, hi))

\* total_results += count as i32, over the index
TotalResults(entries) == SumCounts(entries, 1, Len(entries))

RECURSIVE SortedSeq(_)
\* years.into_iter().collect() and sort()
SortedSeq(S) ==
    IF S = {} THEN <<>>
    ELSE LET m == CHOOSE x \in S : \A y \in S : x <= y
         IN <<m>> \o SortedSeq(S \ {m})

\* the month of the key written without its leading zero
MonthKeyUnpadded(year, month) == Digits(year) \o <<"-">> \o Digits(month)

\* format!("{}-{:02}", year, month)
MonthKey(year, month) == Digits(year) \o <<"-">> \o Pad2(month)

\* *months.entry(month_key).or_insert(0) += 1
MonthCounts(entries) ==
    [k \in {MonthKey(entries[i].year, entries[i].month) : i \in 1..Len(entries)} |->
        Cardinality({i \in 1..Len(entries) :
                        MonthKey(entries[i].year, entries[i].month) = k})]

Stats(entries) ==
    [total_tasks |-> Len(entries),
     total_results |-> TotalResults(entries),
     years |-> SortedSeq({entries[i].year : i \in 1..Len(entries)}),
     months |-> MonthCounts(entries)]

\* a + b leaves the range of i32
Overflows(a, b) ==
    \/ b > 0 /\ a > I32Max - b
    \/ b < 0 /\ a < (-I32Max - 1) - b

RECURSIVE SumPanics(_, _, _)
\* total_results += count as i32 with overflow checks compiled in, as in a
\* debug build: the loop panics at the first addition that overflows
SumPanics(entries, k, acc) ==
    IF k > Len(entries) THEN FALSE
    ELSE \/ Overflows(acc, entries[k].totalCount)
         \/ SumPanics(entries, k + 1, acc + entries[k].totalCount)

\* an index that does not parse reported as an error
GetHistoryStatsStrict(ix, fs, fail) ==
    IF ix.state = "missing" THEN Outcome(ix, fs, TRUE, "", Some(Stats(<<>>)))
    ELSE IF fail = "read_index" THEN Outcome(ix, fs, FALSE, "read index", None)
    ELSE IF ix.state # "ok" THEN Outcome(ix, fs, FALSE, "parse index", None)
    ELSE IF fail = "overflow_checks" /\ SumPanics(LoadIndex(ix), 1, 0)
    THEN Outcome(ix, fs, FALSE, "panic", None)
    ELSE Outcome(ix, fs, TRUE, "", Some(Stats(LoadIndex(ix))))

\* fail = "overflow_checks" is the build with overflow checks, where the
\* command dies of the panic; any other build wraps
GetHistoryStats(ix, fs, fail) ==
    IF ix.state = "missing" THEN Outcome(ix, fs, TRUE, "", Some(Stats(<<>>)))
    ELSE IF fail = "read_index" THEN Outcome(ix, fs, FALSE, "read index", None)
    ELSE IF fail = "overflow_checks" /\ SumPanics(LoadIndex(ix), 1, 0)
    THEN Outcome(ix, fs, FALSE, "panic", None)
    ELSE Outcome(ix, fs, TRUE, "", Some(Stats(LoadIndex(ix))))

----------------------------------------------------------------------------
(* What the caller sends *)

Task(id, name, timestamp, total_count, group_name, extra) ==
    [id |-> id, name |-> name, timestamp |-> timestamp,
     total_count |-> total_count, group_name |-> group_name, extra |-> extra]

IdC == <<"c">>
IdBC == <<"b", "_", "c">>
IdUnknown == <<"z">>

\* a task id the caller numbers, as Date.now() ids are
BulkId(k) == Digits(k)

\* the task the caller saves under a fresh numbered id
BulkTask(k) ==
    Task(Some(BulkId(k)), Some(<<"a">>), Some("2024-01-20T08:30:00Z"),
         Some(1), None, Some("results-of-bulk"))

\* the same task id, edited and saved again in another month
EditedTask(k) ==
    Task(Some(BulkId(k)), Some(<<"a">>), Some("2025-11-02T09:00:00Z"),
         Some(7), Some(<<"g">>), Some("results-edited"))

NamedTasks ==
    { Task(Some(IdC), Some(<<"a", " ", "b">>), Some("2024-01-15T10:00:00+08:00"),
           Some(3), Some(<<"g">>), Some("results-1")),
      Task(Some(IdBC), Some(<<"a">>), Some("2024-01-15T10:00:00+08:00"),
           Some(5), None, Some("results-2")),
      Task(Some(IdC), Some(<<"a", "/", "b">>), Some("2025-11-02T09:00:00Z"),
           None, Some(<<"g">>), Some("results-3")),
      Task(Some(IdC), None, Some("2024-01-15T10:00:00+08:00"),
           Some(3), Some(<<"g">>), None) }

\* the records a save call may carry in the current state
Tasks == NamedTasks \cup {BulkTask(fresh + 1)}
            \cup {EditedTask(k) : k \in 1..Min(ReArchived, fresh)}

\* the ids a get or delete call may carry
TaskIds == {IdC, IdBC, IdUnknown} \cup {BulkId(k) : k \in 1..ReArchived}

----------------------------------------------------------------------------
(* The initial store: nothing under coredata.  The caller first saves n    *)
(* tasks under fresh numbered ids (Fill), for an n in Fills, and then      *)
(* makes up to MaxCalls calls of any kind.                                 *)

NoFiles == [p \in {} |-> Garbage]

Fills == {0} \cup {n \in (HistoryLimit - FillSlack)..HistoryLimit : n >= 0}

NoPath == <<>>

NoCall == [op |-> "none", task |-> None, id |-> None, fail |-> "none",
           badFile |-> NoPath, ok |-> TRUE, err |-> "", val |-> <<>>]

NoStamps == [id \in {} |-> 0]

\* the two calls that may run side by side
Procs == {1, 2}

\* a call that has not begun
Idle == [pc |-> "idle", op |-> "none", task |-> None, id |-> None,
         loaded |-> <<>>, pending |-> <<>>, exists |-> FALSE,
         loadedAfter |-> FALSE, wroteLast |-> FALSE, stored |-> FALSE,
         ok |-> FALSE]

Init ==
    /\ indexFile = MissingIndex
    /\ files = NoFiles
    /\ last = NoCall
    /\ log = <<>>
    /\ insertedAt = NoStamps
    /\ updatedAt = NoStamps
    /\ fresh = 0
    /\ calls = 0
    /\ running = [p \in Procs |-> Idle]

----------------------------------------------------------------------------
(* The calls *)

Put(f, k, v) == [x \in DOMAIN f \cup {k} |-> IF x = k THEN v ELSE f[x]]

Call(op, task, id, fail, badFile, out) ==
    [op |-> op, task |-> task, id |-> id,
     fail |-> fail, badFile |-> badFile,
     ok |-> out.ok, err |-> out.err, val |-> out.val]

SaveStep(task, fail, cost) ==
    LET out == SaveHistoryTask(indexFile, files, task, fail)
        isNew == task.id[1] \notin IndexIds(LoadIndex(indexFile))
    IN
    /\ indexFile' = out.indexFile
    /\ files' = out.files
    /\ last' = Call("save", Some(task), task.id, fail, NoPath, out)
    /\ log' = IF out.ok
              THEN Append(log, [op |-> "save", id |-> task.id[1],
                                timestamp |-> task.timestamp[1]])
              ELSE log
    /\ insertedAt' = IF out.ok /\ isNew
                     THEN Put(insertedAt, task.id[1], Len(log) + 1) ELSE insertedAt
    /\ updatedAt' = IF out.ok
                    THEN Put(updatedAt, task.id[1], Len(log) + 1) ELSE updatedAt
    /\ fresh' = IF task = BulkTask(fresh + 1) THEN fresh + 1 ELSE fresh
    /\ calls' = calls + cost
    /\ UNCHANGED running

\* the filling saves, which come first
Fill ==
    /\ calls = 0
    /\ fresh < HistoryLimit
    /\ SaveStep(BulkTask(fresh + 1), "none", 0)

\* the filling is over
Started == calls > 0 \/ fresh \in Fills

Save(task, fail) == SaveStep(task, fail, 1)

List(fail, badFile) ==
    LET out == GetHistoryData(indexFile, files, fail, badFile) IN
    /\ last' = Call("list", None, None, fail, badFile, out)
    /\ calls' = calls + 1
    /\ UNCHANGED <<indexFile, files, log, insertedAt, updatedAt, fresh, running>>

Get(task_id, fail, badFile) ==
    LET out == GetHistoryTask(indexFile, files, task_id, fail, badFile) IN
    /\ last' = Call("get", None, Some(task_id), fail, badFile, out)
    /\ calls' = calls + 1
    /\ UNCHANGED <<indexFile, files, log, insertedAt, updatedAt, fresh, running>>

Delete(task_id, fail) ==
    LET out == DeleteHistoryTask(indexFile, files, task_id, fail) IN
    /\ indexFile' = out.indexFile
    /\ files' = out.files
    /\ last' = Call("delete", None, Some(task_id), fail, NoPath, out)
    /\ log' = IF out.ok
              THEN Append(log, [op |-> "delete", id |-> task_id, timestamp |-> ""])
              ELSE log
    /\ calls' = calls + 1
    /\ UNCHANGED <<insertedAt, updatedAt, fresh, running>>

Clear(survivors, fail) ==
    LET out == ClearHistoryData(indexFile, files, survivors, fail) IN
    /\ indexFile' = out.indexFile
    /\ files' = out.files
    /\ last' = Call("clear", None, None, fail, NoPath, out)
    /\ log' = IF out.ok
              THEN Append(log, [op |-> "clear", id |-> <<>>, timestamp |-> ""])
              ELSE log
    /\ calls' = calls + 1
    /\ UNCHANGED <<insertedAt, updatedAt, fresh, running>>

StatsCall(fail) ==
    LET out == GetHistoryStats(indexFile, files, fail) IN
    /\ last' = Call("stats", None, None, fail, NoPath, out)
    /\ calls' = calls + 1
    /\ UNCHANGED <<indexFile, files, log, insertedAt, updatedAt, fresh, running>>

\* the filling is over and the run may go on
CanCall == Started /\ calls < MaxCalls

\* every call runs alone and no file operation fails
Next ==
    \/ Fill
    \/ CanCall /\ \E task \in Tasks : Save(task, "none")
    \/ CanCall /\ List("none", NoPath)
    \/ CanCall /\ \E id \in TaskIds : Get(id, "none", NoPath)
    \/ CanCall /\ \E id \in TaskIds : Delete(id, "none")
    \/ CanCall /\ Clear({}, "none")
    \/ CanCall /\ StatsCall("none")

Spec == Init /\ [][Next]_vars

----------------------------------------------------------------------------
(* The same calls with failing file operations, and the generic file       *)
(* commands delete_file and save_json_file aimed at the store's files      *)

SaveFails == {"none", "mkdir", "write_file", "write_file_torn", "read_index",
              "write_index", "write_index_torn"}
ReadFails == {"none", "read_index"}
DeleteFails == {"none", "read_index", "remove_file", "write_index",
                "write_index_torn"}
ClearFails == {"none", "write_index", "write_index_torn"}

\* coredata/history.json
IndexPath == <<"history.json">>

Targets == DOMAIN files \cup {IndexPath}

\* delete_file(file_path): remove_file if the path exists
DeleteFile(target) ==
    /\ IF target = IndexPath
       THEN indexFile' = MissingIndex /\ files' = files
       ELSE indexFile' = indexFile /\ files' = RemoveFiles(files, {target})
    /\ last' = [NoCall EXCEPT !.op = "delete_file", !.badFile = target]
    /\ calls' = calls + 1
    /\ UNCHANGED <<log, insertedAt, updatedAt, fresh, running>>

\* save_json_file(file_path, data): fs::write of the caller's bytes
SaveJsonFile(target, content) ==
    /\ IF target = IndexPath
       THEN indexFile' = CorruptIndex /\ files' = files
       ELSE indexFile' = indexFile /\ files' = WriteFile(files, target, content)
    /\ last' = [NoCall EXCEPT !.op = "save_json_file", !.badFile = target]
    /\ calls' = calls + 1
    /\ UNCHANGED <<log, insertedAt, updatedAt, fresh, running>>

\* the tasks and ids of the calls that may fail: two ids whose file names
\* collide, one of them also in a second month
TasksIO == {task \in NamedTasks : task.name # None}
TaskIdsIO == {IdC, IdBC, IdUnknown}

CanCallIO == calls < MaxCallsIO

Paths == DOMAIN files \cup {NoPath}

NextIO ==
    \/ CanCallIO /\ \E task \in TasksIO, fail \in SaveFails : Save(task, fail)
    \/ CanCallIO /\ \E fail \in ReadFails, bad \in Paths : List(fail, bad)
    \/ CanCallIO /\ \E id \in TaskIdsIO, fail \in ReadFails, bad \in Paths :
                        Get(id, fail, bad)
    \/ CanCallIO /\ \E id \in TaskIdsIO, fail \in DeleteFails : Delete(id, fail)
    \/ CanCallIO /\ \E survivors \in SUBSET DOMAIN files, fail \in ClearFails :
                        Clear(survivors, fail)
    \/ CanCallIO /\ \E fail \in ReadFails : StatsCall(fail)
    \/ CanCallIO /\ \E target \in Targets : DeleteFile(target)
    \/ CanCallIO /\ \E target \in Targets, content \in {Garbage, NoTaskData} :
                        SaveJsonFile(target, content)

SpecIO == Init /\ [][NextIO]_vars

----------------------------------------------------------------------------
(* Calls with records the front end does not build: a field missing, a     *)
(* timestamp that is no date, an empty id, the largest i32 as total_count  *)

\* calls explored from the empty store with such records
MaxCallsEdge == 4

NoIdTask ==
    Task(None, Some(<<"a">>), Some("2024-01-15T10:00:00+08:00"),
         Some(1), None, Some("results-4"))

NoTimestampTask ==
    Task(Some(IdC), Some(<<"a">>), None, Some(1), None, Some("results-5"))

BadTimestampTask ==
    Task(Some(IdC), Some(<<"a">>), Some("15/01/2024 10:00"),
         Some(1), None, Some("results-6"))

EmptyId == <<>>

EmptyIdTask ==
    Task(Some(EmptyId), Some(<<"a">>), Some("2024-01-15T10:00:00+08:00"),
         Some(1), None, Some("results-7"))

HugeCountTask ==
    Task(Some(IdC), Some(<<"a">>), Some("2024-01-15T10:00:00+08:00"),
         Some(I32Max), None, Some("results-8"))

NegativeCountTask ==
    Task(Some(IdUnknown), Some(<<"a">>), Some("2024-01-20T08:30:00Z"),
         Some(-2), None, Some("results-9"))

SmallCountTask ==
    Task(Some(IdBC), Some(<<"b">>), Some("2025-11-02T09:00:00Z"),
         Some(1), None, Some("results-10"))

TasksEdge == {NoIdTask, NoTimestampTask, BadTimestampTask, EmptyIdTask,
              HugeCountTask, NegativeCountTask, SmallCountTask}

TaskIdsEdge == {IdC, EmptyId}

\* a build that wraps on i32 overflow, and one that panics
StatsBuilds == {"none", "overflow_checks"}

CanCallEdge == calls < MaxCallsEdge

NextEdge ==
    \/ CanCallEdge /\ \E task \in TasksEdge : Save(task, "none")
    \/ CanCallEdge /\ List("none", NoPath)
    \/ CanCallEdge /\ \E id \in TaskIdsEdge : Get(id, "none", NoPath)
    \/ CanCallEdge /\ \E id \in TaskIdsEdge : Delete(id, "none")
    \/ CanCallEdge /\ \E build \in StatsBuilds : StatsCall(build)

SpecEdge == Init /\ [][NextEdge]_vars

----------------------------------------------------------------------------
(* Two calls side by side.  The commands are async and run on the          *)
(* runtime's threads, and no handler takes a lock: every file-system call  *)
(* of a handler is a step of its own, and std::fs::write is two, the open  *)
(* that truncates the file and the write of the bytes.  A call that writes *)
(* the index over bytes another call wrote since the truncation leaves     *)
(* its own bytes, followed by what is left of the longer ones.  The write  *)
(* of an archive file is one step: no command of this specification reads  *)
(* archive files.                                                          *)

\* calls made one at a time before the two start
MaxCallsConc == 1

\* history.json right after the open that truncates it
TruncatedIndex == [state |-> "truncated", entries |-> <<>>]

\* index_entry of a task_data that has id and timestamp
EntryOf(task) ==
    LET name == IF task.name = None THEN DefaultName ELSE task.name[1]
        date == ParseRfc3339(task.timestamp[1])[1]
    IN IndexEntry(task, task.id[1], name, task.timestamp[1], date.year, date.month)

\* the change applied to the index file as it is when the write begins
IndexToWriteReloaded(proc, ix) ==
    CASE proc.op = "save"   -> Upsert(LoadIndex(ix), EntryOf(proc.task[1]))
      [] proc.op = "delete" -> Retain(LoadIndex(ix), proc.id[1])
      [] OTHER              -> <<>>

\* the entries of the file as it is when the write begins, those the call
\* did not load, put behind the index it changed in memory
IndexToWriteMerging(proc, ix) ==
    LET late == SelectSeq(LoadIndex(ix),
                          LAMBDA item : item.id \notin IndexIds(proc.loaded))
    IN CASE proc.op = "save"   -> Upsert(proc.loaded, EntryOf(proc.task[1])) \o late
         [] proc.op = "delete" -> Retain(proc.loaded, proc.id[1]) \o late
         [] OTHER              -> <<>>

\* the index a call writes: the history_index it loaded, changed in memory;
\* what the file ix holds by now plays no part
IndexToWrite(proc, ix) ==
    CASE proc.op = "save"   -> Upsert(proc.loaded, EntryOf(proc.task[1]))
      [] proc.op = "delete" -> Retain(proc.loaded, proc.id[1])
      [] OTHER              -> <<>>

Other(p) == CHOOSE q \in Procs : q # p

\* no call is running side by side with another
Quiet == \A p \in Procs : running[p].pc = "idle"

Store == <<last, log, insertedAt, updatedAt, fresh, calls>>

\* save_history_task up to the write of the archive file
SaveWriteFile(p, task) ==
    LET entry == EntryOf(task) IN
    /\ running[p].pc = "idle"
    /\ files' = WriteFile(files, entry.relativePath,
                          ArchiveContent(task, entry.year, entry.month))
    /\ running' = [running EXCEPT ![p] =
                      [Idle EXCEPT !.pc = "load", !.op = "save",
                                   !.task = Some(task), !.id = task.id]]
    /\ UNCHANGED <<indexFile, Store>>

\* save_history_task: the load of history_index
SaveLoadIndex(p) ==
    /\ running[p].pc = "load"
    /\ running' = [running EXCEPT ![p].pc = "truncate",
                                  ![p].loaded = LoadIndex(indexFile),
                                  ![p].loadedAfter = running[Other(p)].stored]
    /\ UNCHANGED <<indexFile, files, Store>>

\* delete_history_task up to the load of history_index
DeleteLoadIndex(p, task_id) ==
    /\ running[p].pc = "idle"
    /\ running' = [running EXCEPT ![p] =
          IF indexFile.state = "missing"
          THEN [Idle EXCEPT !.pc = "done", !.op = "delete",
                            !.id = Some(task_id), !.ok = TRUE]
          ELSE [Idle EXCEPT !.pc = "probe", !.op = "delete",
                            !.id = Some(task_id),
                            !.loaded = LoadIndex(indexFile),
                            !.loadedAfter = running[Other(p)].stored]]
    /\ UNCHANGED <<indexFile, files, Store>>

\* delete_history_task: find and task_file_path.exists()
DeleteProbe(p) ==
    LET proc == running[p]
        pos == Position(proc.loaded, proc.id[1])
    IN
    /\ proc.pc = "probe"
    /\ running' = [running EXCEPT ![p].pc = "remove",
                                  ![p].exists =
                                      /\ pos > 0
                                      /\ proc.loaded[pos].relativePath \in DOMAIN files]
    /\ UNCHANGED <<indexFile, files, Store>>

\* delete_history_task: remove_file, which fails if the file has gone since
DeleteRemoveFile(p) ==
    LET proc == running[p]
        pos == Position(proc.loaded, proc.id[1])
    IN
    /\ proc.pc = "remove"
    /\ IF ~proc.exists
       THEN /\ running' = [running EXCEPT ![p].pc = "truncate"]
            /\ files' = files
       ELSE IF proc.loaded[pos].relativePath \in DOMAIN files
       THEN /\ running' = [running EXCEPT ![p].pc = "truncate"]
            /\ files' = RemoveFiles(files, {proc.loaded[pos].relativePath})
       ELSE /\ running' = [running EXCEPT ![p].pc = "done", ![p].ok = FALSE]
            /\ files' = files
    /\ UNCHANGED <<indexFile, Store>>

\* clear_history_data: the walk
ClearWalk(p) ==
    /\ running[p].pc = "idle"
    /\ files' = RemoveFiles(files, DOMAIN files)
    /\ running' = [running EXCEPT ![p] =
                      [Idle EXCEPT !.pc = "truncate", !.op = "clear"]]
    /\ UNCHANGED <<indexFile, Store>>

\* std::fs::write(&history_index_path, index_content): the open
TruncateIndex(p) ==
    /\ running[p].pc = "truncate"
    /\ indexFile' = TruncatedIndex
    /\ running' = [running EXCEPT ![p].pc = "write",
                                  ![p].pending = IndexToWrite(running[p], indexFile)]
    /\ UNCHANGED <<files, Store>>

\* std::fs::write(&history_index_path, index_content): the bytes; the call
\* returns Ok
WriteIndexBytes(p) ==
    /\ running[p].pc = "write"
    /\ \/ indexFile' = OkIndex(running[p].pending)
       \/ indexFile # TruncatedIndex /\ indexFile' = CorruptIndex
    /\ running' = [running EXCEPT ![p].pc = "done", ![p].ok = TRUE,
                                  ![p].stored = TRUE,
                                  ![p].wroteLast = running[Other(p)].stored]
    /\ UNCHANGED <<files, Store>>

TasksConc == TasksIO
TaskIdsConc == {IdC, IdBC}

NextConc ==
    \/ Quiet /\ calls < MaxCallsConc /\ \E task \in TasksConc : Save(task, "none")
    \/ \E p \in Procs, task \in TasksConc : SaveWriteFile(p, task)
    \/ \E p \in Procs : SaveLoadIndex(p)
    \/ \E p \in Procs, id \in TaskIdsConc : DeleteLoadIndex(p, id)
    \/ \E p \in Procs : DeleteProbe(p)
    \/ \E p \in Procs : DeleteRemoveFile(p)
    \/ \E p \in Procs : ClearWalk(p)
    \/ \E p \in Procs : TruncateIndex(p)
    \/ \E p \in Procs : WriteIndexBytes(p)

SpecConc == Init /\ [][NextConc]_vars

----------------------------------------------------------------------------
(* Two calls side by side on an index that is full or nearly so: the       *)
(* caller first saves n tasks under numbered ids, one call at a time, for  *)
(* an n in Fills, and then two calls run as under SpecConc.                *)

\* two tasks of ids the index does not hold, and a numbered task edited
TasksRace ==
    {task \in TasksIO : task.timestamp = Some("2024-01-15T10:00:00+08:00")}
        \cup {EditedTask(k) : k \in 1..Min(ReArchived, fresh)}

TaskIdsRace == {BulkId(k) : k \in 1..ReArchived}

NextRace ==
    \/ Quiet /\ Fill
    \/ Started /\ \E p \in Procs, task \in TasksRace : SaveWriteFile(p, task)
    \/ \E p \in Procs : SaveLoadIndex(p)
    \/ Started /\ \E p \in Procs, id \in TaskIdsRace : DeleteLoadIndex(p, id)
    \/ \E p \in Procs : DeleteProbe(p)
    \/ \E p \in Procs : DeleteRemoveFile(p)
    \/ Started /\ \E p \in Procs : ClearWalk(p)
    \/ \E p \in Procs : TruncateIndex(p)
    \/ \E p \in Procs : WriteIndexBytes(p)

SpecRace == Init /\ [][NextRace]_vars

----------------------------------------------------------------------------
(* The claims *)

Entries == LoadIndex(indexFile)

\* the step is a call of op that returned success
Succeeded(op) == last'.op = op /\ last'.ok /\ log' # log

\* every successful call so far was a save
OnlySaves == \A i \in 1..Len(log) : log[i].op = "save"

\* every successful call so far was a save, each of another task id
OnlyDistinctSaves ==
    /\ OnlySaves
    /\ Cardinality({log[i].id : i \in 1..Len(log)}) = Len(log)

\* C1: after any sequence of save, delete and clear calls from the empty
\* store, run one at a time, the persisted index has at most one entry per
\* task id and at most 100 entries.
C1_UniqueIdsAtMostLimit ==
    /\ Len(Entries) <= HistoryLimit
    /\ Cardinality(IndexIds(Entries)) = Len(Entries)

\* a save into a full index has just dropped an entry
C1_Witness ==
    /\ last.op = "save" /\ last.ok
    /\ Len(Entries) = HistoryLimit
    /\ \E id \in DOMAIN insertedAt :
          /\ id \notin IndexIds(Entries)
          /\ \A i \in 1..Len(log) : log[i].op = "save" \/ log[i].id # id

\* C4: a successful save of an id the index holds replaces that entry where
\* it stands and leaves every other entry as it was; a successful save of an
\* id the index lacks puts the new entry first, the former entries behind it
\* in their order (the first 99 of them, the index being cut to 100).
C4_UpsertPosition ==
    [][Succeeded("save") =>
        LET old == LoadIndex(indexFile)
            new == LoadIndex(indexFile')
            task == last'.task[1]
            pos == Position(old, task.id[1])
            placed == IF pos > 0 THEN pos ELSE 1
        IN /\ new[placed].id = task.id[1]
           /\ new[placed].timestamp = task.timestamp[1]
           /\ new[placed].totalCount =
                 (IF task.total_count = None THEN 0 ELSE task.total_count[1])
           /\ IF pos > 0
              THEN /\ Len(new) = Len(old)
                   /\ \A i \in 1..Len(old) : i # pos => new[i] = old[i]
              ELSE /\ Len(new) = Min(Len(old) + 1, HistoryLimit)
                   /\ \A i \in 2..Len(new) : new[i] = old[i - 1]]_vars

\* an entry that is not the first one has just been replaced where it stood,
\* with a new timestamp
C4_Witness ==
    /\ last.op = "save" /\ last.ok
    /\ Position(Entries, last.id[1]) > 1
    /\ Len(log) > 1
    /\ \E i \in 1..(Len(log) - 1) :
          /\ log[i].op = "save" /\ log[i].id = last.id[1]
          /\ log[i].timestamp # last.task[1].timestamp[1]
    /\ \A i \in 1..Len(log) : log[i].op = "save"

\* C5: from the empty index, after n successful saves of pairwise distinct
\* ids the index holds exactly min(n, 100) entries: the most recently saved
\* ids, the most recent first.
C5_RetentionBound ==
    OnlyDistinctSaves =>
        LET n == Len(log) IN
        /\ Len(Entries) = Min(n, HistoryLimit)
        /\ \A i \in 1..Len(Entries) : Entries[i].id = log[n + 1 - i].id

\* more distinct ids have been saved than the index holds
C5_Witness ==
    /\ OnlyDistinctSaves
    /\ Len(log) > HistoryLimit + 1
    /\ \E i \in 1..Len(log) : log[i].id = IdC

\* C6, as the spec states it: after successful saves only, the index holds
\* the ids whose latest save is most recent: no id is out of the index
\* while an id whose latest save is older is in it.
C6_EvictsLeastRecentlyUpdated ==
    OnlySaves =>
        \A x \in DOMAIN updatedAt \ IndexIds(Entries) :
            \A y \in IndexIds(Entries) : updatedAt[x] < updatedAt[y]

\* C6, amended: after successful saves only, the index holds the ids most
\* recently inserted (saved while not in the index); saving an id again
\* does not renew its place, so no id is out of the index while an id
\* inserted earlier is in it.
C6_EvictsLeastRecentlyInserted ==
    OnlySaves =>
        \A x \in DOMAIN insertedAt \ IndexIds(Entries) :
            \A y \in IndexIds(Entries) : insertedAt[x] < insertedAt[y]

\* an id was dropped although its latest save is more recent than that of
\* an id still in the index
C6_Witness ==
    /\ OnlySaves
    /\ \E x \in DOMAIN updatedAt \ IndexIds(Entries) :
          \E y \in IndexIds(Entries) :
              updatedAt[x] > updatedAt[y] /\ insertedAt[x] < insertedAt[y]

\* C7: two successful saves in a row of the same id with the same timestamp
\* leave exactly one index entry for the id, and the list is as long after
\* the second save as after the first.
C7_IdempotentUpsert ==
    [][(/\ last.op = "save" /\ last.ok
        /\ Succeeded("save")
        /\ last'.id = last.id
        /\ last'.task[1].timestamp = last.task[1].timestamp) =>
        LET new == LoadIndex(indexFile')
            id == last'.id[1]
        IN /\ Cardinality({i \in 1..Len(new) : new[i].id = id}) = 1
           /\ Len(GetHistoryData(indexFile', files', "none", NoPath).val)
                = Len(GetHistoryData(indexFile, files, "none", NoPath).val)]_vars

\* the only two calls so far were saves of one id with one timestamp, under
\* two names
C7_Witness ==
    /\ calls = 2 /\ fresh = 0 /\ Len(log) = 2
    /\ log[1].op = "save" /\ log[2].op = "save"
    /\ log[1].id = log[2].id
    /\ log[1].timestamp = log[2].timestamp
    /\ Cardinality(DOMAIN files) = 2

\* the archive files no index entry names
Orphans ==
    DOMAIN files \ {Entries[i].relativePath : i \in 1..Len(Entries)}

\* C19: a save removes no archive file, so the file of an entry the
\* truncate drops stays; and no save or delete removes an archive file
\* that no index entry names.
C19_RetentionKeepsFiles ==
    [][/\ last'.op = "save" => DOMAIN files \subseteq DOMAIN files'
       /\ last'.op \in {"save", "delete"} => Orphans \subseteq DOMAIN files']_vars

\* the truncate has dropped the entry of the first numbered id, no call
\* deleted that id before, and a delete of an id the index held has
\* returned since: the archive file of the first id is there, named by no
\* entry
C19_Witness ==
    /\ last.op = "delete" /\ last.ok
    /\ Len(log) > HistoryLimit + 1
    /\ log[Len(log)].op = "delete"
    /\ \E i \in 1..(Len(log) - 1) : log[i].op = "save" /\ log[i].id = last.id[1]
    /\ \A i \in 1..(Len(log) - 1) : log[i].op = "save"
    /\ BulkId(1) \notin IndexIds(Entries)
    /\ last.id[1] # BulkId(1)
    /\ FilePath(2024, 1, FileName(<<"a">>, BulkId(1))) \in Orphans

\* the task id an archive file was written for
OwnerOf(path) == files[path].taskData[1].id[1]

\* C21: no two archive files hold the task data of one task id, also
\* after the id was saved again under another name or with a timestamp of
\* another month.
C21_OneFilePerTaskId ==
    \A p, q \in DOMAIN files : OwnerOf(p) = OwnerOf(q) => p = q

\* C22: after a clear call, no file operation failing, no archive file is
\* left in any month directory, the files no index entry named included.
C22_ClearRemovesEveryFile ==
    (last.op = "clear" /\ last.fail = "none") =>
        /\ last.ok
        /\ DOMAIN files = {}

\* a clear call has returned after more saves of distinct ids than the
\* index holds, and nothing else, so that the file of the first id had no
\* index entry when the clear began
C22_Witness ==
    /\ last.op = "clear" /\ last.ok
    /\ Len(log) = HistoryLimit + 2
    /\ \A i \in 1..(HistoryLimit + 1) : log[i].op = "save"
    /\ Cardinality({log[i].id : i \in 1..(HistoryLimit + 1)}) = HistoryLimit + 1
    /\ DOMAIN files = {}

\* C23: the file names of two saved records of distinct ids and one year
\* and month differ, whatever their names, and the archive file a save
\* writes is that of no other id.
C23_FileNameUnique ==
    /\ \A i, j \in 1..Len(Entries) :
          (/\ Entries[i].id # Entries[j].id
           /\ Entries[i].year = Entries[j].year
           /\ Entries[i].month = Entries[j].month)
              => Entries[i].fileName # Entries[j].fileName
    /\ \A i \in 1..Len(Entries) :
          Entries[i].relativePath \in DOMAIN files
              => OwnerOf(Entries[i].relativePath) = Entries[i].id

\* C25: with calls run one at a time, no file operation failing and no
\* file touched from outside, every index entry names an archive file
\* that exists and holds the task data of the entry's id: get of the id
\* returns a record of that id, and list returns the record of the file
\* for the entry, not the summary built from the index.
C25_IndexNamesOwnFiles ==
    LET listed == GetHistoryData(indexFile, files, "none", NoPath) IN
    \A i \in 1..Len(Entries) :
        LET item == Entries[i]
            got == GetHistoryTask(indexFile, files, item.id, "none", NoPath)
        IN /\ item.relativePath \in DOMAIN files
           /\ OwnerOf(item.relativePath) = item.id
           /\ got.ok /\ got.val # None /\ got.val[1].id = Some(item.id)
           /\ listed.ok /\ listed.val[i] = files[item.relativePath].taskData[1]

----------------------------------------------------------------------------
(* The claims about failing file operations, checked under SpecIO *)

\* C2: whenever a save of a record succeeds, in any state of the store, a
\* get of the record's id right after it returns the record as the caller
\* sent it, the fields the store does not read included.
C2_RoundTrip ==
    (last.op = "save" /\ last.ok) =>
        LET out == GetHistoryTask(indexFile, files, last.id[1], "none", NoPath)
        IN out.ok /\ out.val = Some(last.task[1])

\* a record was saved over the entry it already had, which is not the first
\* one and shares its archive file with another id's entry
C2_Witness ==
    /\ last.op = "save" /\ last.ok
    /\ last.task[1].extra # None
    /\ Position(Entries, last.id[1]) > 1
    /\ \E i \in 1..Len(Entries) :
          /\ Entries[i].id # last.id[1]
          /\ Entries[i].relativePath
                = Entries[Position(Entries, last.id[1])].relativePath

\* the archive file of an index entry cannot be used by the list call
Unusable(item, badFile) ==
    \/ item.relativePath \notin DOMAIN files
    \/ item.relativePath = badFile
    \/ files[item.relativePath].kind # "archive"

\* C3: a list call fails for no archive file's sake and returns one summary
\* per index entry, in index order; for an entry whose archive file is
\* missing, unreadable or unparsable the summary takes id, name, timestamp,
\* total_count and group_name from the entry, has no results and is not
\* edit protected.
C3_ReconciliationFallback ==
    last.op = "list" =>
        /\ ~last.ok => (last.fail = "read_index" /\ indexFile.state # "missing")
        /\ last.ok =>
            /\ Len(last.val) = Len(Entries)
            /\ \A i \in 1..Len(Entries) :
                  LET item == Entries[i]
                      got == last.val[i]
                  IN IF Unusable(item, last.badFile)
                     THEN /\ "results" \in DOMAIN got
                          /\ got.results = <<>>
                          /\ got.edit_protected = FALSE
                          /\ got.id = item.id
                          /\ got.name = item.name
                          /\ got.timestamp = item.timestamp
                          /\ got.total_count = item.totalCount
                          /\ got.group_name = item.groupName
                     ELSE got = files[item.relativePath].taskData[1]

\* a list call met an index entry whose archive file is gone and returned
\* the summary built from the entry
C3_Witness ==
    /\ last.op = "list" /\ last.ok
    /\ \E i \in 1..Len(Entries) : Entries[i].relativePath \notin DOMAIN files
    /\ \E i \in 1..Len(last.val) : "results" \in DOMAIN last.val[i]

\* the step is a call of op, successful or not
Called(op) == last'.op = op /\ calls' = calls + 1

\* C8: after a delete of an id returned success, in any state of the store,
\* get of the id returns absent, the index has no entry for the id and the
\* archive file the removed entry named is gone.
C8_DeleteRemovesBoth ==
    [][(Called("delete") /\ last'.ok) =>
        LET id == last'.id[1]
            old == LoadIndex(indexFile)
            pos == Position(old, id)
            get == GetHistoryTask(indexFile', files', id, "none", NoPath)
        IN /\ get.ok /\ get.val = None
           /\ id \notin IndexIds(LoadIndex(indexFile'))
           /\ pos > 0 => old[pos].relativePath \notin DOMAIN files']_vars

\* a saved id was deleted with success while another id stayed in the index
C8_Witness ==
    /\ last.op = "delete" /\ last.ok
    /\ calls = 3 /\ Len(log) = 3
    /\ log[3].op = "delete" /\ log[3].id = last.id[1]
    /\ \E i \in 1..2 : log[i].op = "save" /\ log[i].id = last.id[1]
    /\ Len(Entries) = 1

\* the delete call found an entry whose archive file exists, and remove_file
\* failed
RemoveFailed ==
    /\ Called("delete")
    /\ last'.fail = "remove_file"
    /\ LET old == LoadIndex(indexFile)
           pos == Position(old, last'.id[1])
       IN pos > 0 /\ old[pos].relativePath \in DOMAIN files

C10_ClearEmptiesIndex ==
    (last.op = "clear" /\ last.fail \notin {"write_index", "write_index_torn"}) =>
        /\ last.ok
        /\ indexFile = OkIndex(<<>>)
        /\ GetHistoryData(indexFile, files, "none", NoPath).val = <<>>
        /\ GetHistoryStats(indexFile, files, "none").val[1].total_tasks = 0

\* a clear call returned although archive files of saved tasks survived it
C10_Witness ==
    /\ last.op = "clear" /\ last.ok
    /\ DOMAIN files # {}
    /\ calls = 3 /\ Len(log) = 3
    /\ log[1].op = "save" /\ log[2].op = "save"
    /\ \E p \in DOMAIN files : files[p].kind = "archive"

\* C13: when a save cannot create the month directory it returns an error,
\* writes no archive file and leaves the index file as it was; when it
\* cannot write the archive file it returns an error and leaves the index
\* file as it was.
C13_AbortsBeforeIndex ==
    [][Called("save") =>
        /\ last'.fail = "mkdir" =>
              ~last'.ok /\ files' = files /\ indexFile' = indexFile
        /\ last'.fail \in {"write_file", "write_file_torn"} =>
              ~last'.ok /\ indexFile' = indexFile]_vars

\* the write of the archive file of a task failed half way: the file is
\* there, the index holds another task and not this one
C13_Witness ==
    /\ last.op = "save" /\ last.fail = "write_file_torn" /\ ~last.ok
    /\ Len(Entries) > 0
    /\ last.id[1] \notin IndexIds(Entries)
    /\ \E p \in DOMAIN files : files[p] = Garbage

\* the get call found an index entry for the id
GotEntry == last.op = "get" /\ Position(Entries, last.id[1]) > 0

\* the index entry the get call found
GotItem == Entries[Position(Entries, last.id[1])]

\* C17, as the spec states it: a get whose read of the index does not fail
\* returns with no error; it returns absent when the index has no entry
\* for the id and when the entry's archive file is missing, unreadable or
\* unparsable, and the record of the file otherwise.
C17_AbsentNeverError ==
    (last.op = "get" /\ last.fail = "none") =>
        /\ last.ok
        /\ last.val = IF GotEntry /\ ~Unusable(GotItem, last.badFile)
                      THEN files[GotItem.relativePath].taskData
                      ELSE None

\* C17, amended: a get whose read of the index does not fail returns an
\* error when the entry's archive file exists and cannot be read; it
\* returns absent when the index has no entry for the id and when the
\* entry's archive file is missing or unparsable, and the record of the
\* file otherwise.
C17_AbsentUnlessUnreadable ==
    (last.op = "get" /\ last.fail = "none") =>
        IF /\ GotEntry
           /\ GotItem.relativePath \in DOMAIN files
           /\ GotItem.relativePath = last.badFile
        THEN ~last.ok /\ last.err = "read file"
        ELSE /\ last.ok
             /\ last.val = IF GotEntry /\ ~Unusable(GotItem, last.badFile)
                           THEN files[GotItem.relativePath].taskData
                           ELSE None

\* a get found the entry of the id and could not read its archive file,
\* which holds the record
C17_Witness ==
    /\ GotEntry /\ last.fail = "none" /\ ~last.ok
    /\ GotItem.relativePath = last.badFile
    /\ files[last.badFile].kind = "archive"

\* C18: a delete of an id that has no index entry, no file operation
\* failing, returns success and leaves the sequence of index entries and
\* the archive files as they were.
C18_DeleteUnknownNoOp ==
    [][(/\ Called("delete")
        /\ last'.fail = "none"
        /\ last'.id[1] \notin IndexIds(LoadIndex(indexFile))) =>
        /\ last'.ok
        /\ LoadIndex(indexFile') = LoadIndex(indexFile)
        /\ files' = files]_vars

\* a delete of an id the index does not hold has returned; the index holds
\* two entries and there are archive files
C18_Witness ==
    /\ last.op = "delete" /\ last.ok /\ last.fail = "none"
    /\ Len(log) = 3 /\ log[1].op = "save" /\ log[2].op = "save"
    /\ Len(Entries) = 2
    /\ last.id[1] \notin {log[1].id, log[2].id}
    /\ DOMAIN files # {}

\* both calls return Ok and the same value, and leave the same archive
\* files and the same index entries
SameOutcome(a, b) ==
    /\ a.ok /\ b.ok
    /\ a.val = b.val
    /\ a.files = b.files
    /\ LoadIndex(a.indexFile) = LoadIndex(b.indexFile)

\* C20: where the index file is missing or does not parse, each of save,
\* list, get, delete and stats, no file operation failing, returns Ok and
\* does what it does on an index file that holds the empty list: the same
\* value returned, the same archive files and the same index entries left.
C20_SelfHealingLoad ==
    indexFile.state # "ok" =>
        LET empty == OkIndex(<<>>) IN
        /\ \A task \in TasksIO :
              SameOutcome(SaveHistoryTask(indexFile, files, task, "none"),
                          SaveHistoryTask(empty, files, task, "none"))
        /\ SameOutcome(GetHistoryData(indexFile, files, "none", NoPath),
                       GetHistoryData(empty, files, "none", NoPath))
        /\ \A id \in TaskIdsIO :
              /\ SameOutcome(GetHistoryTask(indexFile, files, id, "none", NoPath),
                             GetHistoryTask(empty, files, id, "none", NoPath))
              /\ SameOutcome(DeleteHistoryTask(indexFile, files, id, "none"),
                             DeleteHistoryTask(empty, files, id, "none"))
        /\ SameOutcome(GetHistoryStats(indexFile, files, "none"),
                       GetHistoryStats(empty, files, "none"))

\* a list call has returned the empty list from an index file that does
\* not parse, beside archive files of saved tasks
C20_Witness ==
    /\ last.op = "list" /\ last.ok /\ last.val = <<>>
    /\ indexFile.state = "corrupt"
    /\ \E p \in DOMAIN files : files[p].kind = "archive"

\* the save call of the step has left the index holding the entry of its
\* task, and the archive file of the task written
Indexed(task) ==
    LET entry == EntryOf(task) IN
    /\ \E i \in 1..Len(LoadIndex(indexFile')) : LoadIndex(indexFile')[i] = entry
    /\ entry.relativePath \in DOMAIN files'
    /\ files'[entry.relativePath] = ArchiveContent(task, entry.year, entry.month)

\* every index entry the step has brought in names an archive file
NoEntryAheadOfFile ==
    \A i \in 1..Len(LoadIndex(indexFile')) :
        (\A j \in 1..Len(LoadIndex(indexFile)) :
            LoadIndex(indexFile)[j] # LoadIndex(indexFile')[i])
          => LoadIndex(indexFile')[i].relativePath \in DOMAIN files'

\* C24, as the spec states it: whatever step a save is cut short at, it
\* leaves the index file as it was, or leaves it holding the new entry with
\* the archive file written; it brings in no index entry whose archive file
\* is not written.
C24_IndexUnchangedOrComplete ==
    [][Called("save") =>
        /\ indexFile' = indexFile \/ Indexed(last'.task[1])
        /\ NoEntryAheadOfFile]_vars

\* C24, amended: whatever step a save is cut short at, it leaves the index
\* file as it was, or leaves it holding the new entry with the archive
\* file written, or, cut short within the write of the index file, leaves
\* the index file unparsable with the archive file written; it brings in
\* no index entry whose archive file is not written.
C24_IndexUnchangedCompleteOrTorn ==
    [][Called("save") =>
        /\ \/ indexFile' = indexFile
           \/ Indexed(last'.task[1])
           \/ /\ last'.fail = "write_index_torn"
              /\ indexFile' = CorruptIndex
              /\ EntryOf(last'.task[1]).relativePath \in DOMAIN files'
        /\ NoEntryAheadOfFile]_vars

\* the second call, a save, was cut short within the write of the index
\* file, which the first call, a save, had written: the index file does not
\* parse, and the archive files of both tasks are there
C24_Witness ==
    /\ calls = 2 /\ Len(log) = 1 /\ log[1].op = "save"
    /\ last.op = "save" /\ last.fail = "write_index_torn" /\ ~last.ok
    /\ indexFile = CorruptIndex
    /\ last.id[1] # log[1].id
    /\ Cardinality(DOMAIN files) = 2

----------------------------------------------------------------------------
(* The claims about records the front end does not build, checked under    *)
(* SpecEdge                                                                *)

\* the timestamps of the model that are RFC 3339 dates
Rfc3339Stamps == {"2024-01-15T10:00:00+08:00", "2024-01-20T08:30:00Z",
                  "2025-11-02T09:00:00Z"}

\* the record has no id, no timestamp, or a timestamp that is no date
Malformed(task) ==
    \/ task.id = None
    \/ task.timestamp = None
    \/ task.timestamp[1] \notin Rfc3339Stamps

\* C11: a save of a record that has no id, no timestamp or a timestamp that
\* is not an RFC 3339 date returns an error and leaves the index file and
\* the archive files as they were.
C11_MalformedInputNoEffect ==
    [][(Called("save") /\ Malformed(last'.task[1])) =>
        /\ ~last'.ok
        /\ indexFile' = indexFile
        /\ files' = files]_vars

\* a save with a timestamp that is no date failed on a store that holds an
\* entry and an archive file
C11_Witness ==
    /\ last.op = "save" /\ ~last.ok
    /\ last.task = Some(BadTimestampTask)
    /\ Len(Entries) > 0
    /\ DOMAIN files # {}

\* C12: a save of a record whose id is the empty string fails; it writes
\* no archive file and adds no index entry.
C12_EmptyIdRejected ==
    (last.op = "save" /\ last.id = Some(EmptyId)) =>
        /\ ~last.ok
        /\ EmptyId \notin IndexIds(Entries)
        /\ FilePath(2024, 1, FileName(<<"a">>, EmptyId)) \notin DOMAIN files

\* "<year>-<two-digit month>"
YearMonthText(year, month) ==
    Digits(year) \o <<"-">>
        \o (IF month < 10 THEN <<"0", DigitChar(month)>> ELSE Digits(month))

RECURSIVE SumOf(_, _)
\* the sum of f over the keys S
SumOf(f, S) ==
    IF S = {} THEN 0
    ELSE LET k == CHOOSE x \in S : TRUE IN f[k] + SumOf(f, S \ {k})

\* C15: stats returns total_tasks, the number of index entries; years, the
\* distinct years of the entries in ascending order; months, which maps
\* "<year>-<two-digit month>" to the number of entries of that year and
\* month, the counts adding up to total_tasks; and zero tasks, zero results
\* and no year or month when the index file is missing.  (The call does
\* not return where the i32 sum of the counts overflows in a build that
\* checks overflow: see C16.)
C15_StatsOfIndex ==
    last.op = "stats" =>
        /\ ~last.ok => (last.fail = "overflow_checks" /\ SumPanics(Entries, 1, 0))
        /\ last.ok =>
            LET st == last.val[1]
                n == Len(Entries)
            IN /\ st.total_tasks = n
               /\ {st.years[i] : i \in 1..Len(st.years)}
                     = {Entries[i].year : i \in 1..n}
               /\ \A i, j \in 1..Len(st.years) : i < j => st.years[i] < st.years[j]
               /\ DOMAIN st.months
                     = {YearMonthText(Entries[i].year, Entries[i].month) : i \in 1..n}
               /\ \A i \in 1..n :
                     st.months[YearMonthText(Entries[i].year, Entries[i].month)]
                       = Cardinality({j \in 1..n :
                                        /\ Entries[j].year = Entries[i].year
                                        /\ Entries[j].month = Entries[i].month})
               /\ SumOf(st.months, DOMAIN st.months) = st.total_tasks
               /\ indexFile.state = "missing" =>
                     /\ st.total_tasks = 0 /\ st.total_results = 0
                     /\ st.years = <<>> /\ DOMAIN st.months = {}

\* stats of an index of three entries in two years, two of them in one
\* month
C15_Witness ==
    /\ last.op = "stats" /\ last.ok
    /\ Len(Entries) = 3
    /\ Len(last.val[1].years) = 2
    /\ \E k \in DOMAIN last.val[1].months : last.val[1].months[k] = 2

\* 2^16
Half == 256 * 256

\* the integer x in two parts: x = Wide(x)[1] * 2^16 + Wide(x)[2], the
\* second part in 0..2^16-1
Wide(x) == <<x \div Half, x % Half>>

RECURSIVE WideSum(_, _)
\* the sum of totalCount over entries[k..], unbounded, in two parts
WideSum(entries, k) ==
    IF k > Len(entries) THEN <<0, 0>>
    ELSE LET head == Wide(entries[k].totalCount)
             rest == WideSum(entries, k + 1)
             low == head[2] + rest[2]
         IN <<head[1] + rest[1] + (low \div Half), low % Half>>

\* C16: stats returns, and its total_results is the sum of totalCount over
\* the index entries as integers add, whatever the size of the counts and
\* of the sum.
C16_TotalResultsIsSum ==
    last.op = "stats" =>
        /\ last.ok
        /\ Wide(last.val[1].total_results) = WideSum(Entries, 1)

----------------------------------------------------------------------------
(* The claims about calls side by side, checked under SpecConc *)

\* the index shows the change the call made
Applied(proc, entries) ==
    IF proc.op = "save"
    THEN \E i \in 1..Len(entries) : entries[i] = EntryOf(proc.task[1])
    ELSE proc.id[1] \notin IndexIds(entries)

\* both calls are a save or a delete, of two ids, both have written the
\* index and returned Ok, q after p, and the index file is whole
BothReturned(p, q) ==
    /\ p # q
    /\ running[p].pc = "done" /\ running[q].pc = "done"
    /\ running[p].ok /\ running[q].ok
    /\ running[p].stored /\ running[q].stored
    /\ running[p].op \in {"save", "delete"}
    /\ running[q].op \in {"save", "delete"}
    /\ running[p].id # running[q].id
    /\ running[q].wroteLast
    /\ indexFile.state = "ok"

\* C14: of two save or delete calls of two ids that run side by side and
\* both return Ok, the one that writes the index last wins: its change is
\* in the index, and the change of the other is in the index only if the
\* last writer loaded the index after the other had written it.  If it
\* loaded the index before, the id the other saved is not in the index,
\* and the id the other deleted is in it again.
C14_LastWriterWins ==
    \A p, q \in Procs :
        BothReturned(p, q) =>
            /\ Applied(running[q], Entries)
            /\ running[q].loadedAfter => Applied(running[p], Entries)
            /\ (/\ ~running[q].loadedAfter
                /\ running[p].op = "save"
                /\ running[p].id[1] \notin IndexIds(running[q].loaded))
                  => running[p].id[1] \notin IndexIds(Entries)
            /\ (/\ ~running[q].loadedAfter
                /\ running[p].op = "delete"
                /\ running[p].id[1] \in IndexIds(running[q].loaded))
                  => running[p].id[1] \in IndexIds(Entries)

\* two saves of two ids have both returned Ok, and the index holds one id
\* only; the archive file of the other is there
C14_Witness ==
    \E p, q \in Procs :
        /\ BothReturned(p, q)
        /\ running[p].op = "save" /\ running[q].op = "save"
        /\ calls = 0
        /\ IndexIds(Entries) = {running[q].id[1]}
        /\ EntryOf(running[p].task[1]).relativePath \in DOMAIN files

----------------------------------------------------------------------------
(* The claim about calls side by side on a full index, checked under       *)
(* SpecRace                                                                *)

\* C26: however two save, delete and clear calls interleave, the index
\* file holds at most 100 entries at every moment, no two of one id.
C26_StructureSurvivesRaces ==
    /\ Len(Entries) <= HistoryLimit
    /\ Cardinality(IndexIds(Entries)) = Len(Entries)

\* two saves of ids the full index did not hold have both returned Ok; the
\* index holds 100 entries, the id of the later writer among them and the
\* id of the other not
C26_Witness ==
    \E p, q \in Procs :
        /\ BothReturned(p, q)
        /\ running[p].op = "save" /\ running[q].op = "save"
        /\ fresh = HistoryLimit
        /\ Len(running[q].loaded) = HistoryLimit
        /\ Len(Entries) = HistoryLimit
        /\ running[q].id[1] \in IndexIds(Entries)
        /\ running[p].id[1] \notin IndexIds(Entries)

====
